---- MODULE Spec2Model ----
(***************************************************************************)
(* usdinspect: the selection cascade of UsdInspectApp (app.py), the        *)
(* widgets it wires together (widgets.py) and the ValuesTable display      *)
(* state machine (values_table.py).                                        *)
(*                                                                         *)
(* Strings that the code builds or takes apart (row keys, relative         *)
(* property paths, text typed in the frame inputs) are sequences of        *)
(* one-character strings, so that concatenation and splitting are          *)
(* computed.  Handlers are atomic actions that take the message at the     *)
(* head of one FIFO queue; reactive attributes call their watcher          *)
(* synchronously, and only when the assigned value differs.                *)
(***************************************************************************)
EXTENDS Integers, Sequences, FiniteSets, TLC

VARIABLES
    stage,      \* the Usd.Stage handed to UsdInspectApp (never mutated)
    tree,       \* StageTree: cursor_node, prim
    layers,     \* PrimLayerStackTable: prim, rows, cursor
    tabs,       \* PrimDataTabs: prim, active (pane)
    props,      \* PrimPropertiesTable: data_object, rows, cursor
    prim_meta,  \* MetadataTable #prim_metadata_table: data_object, rows, cursor
    prop_meta,  \* MetadataTable #property_metadata_table: data_object, rows
    values,     \* ValuesTable: state, frame, columns, rows
    timeline,   \* Timeline: slider min, max, value and current_frame
    queue,      \* messages posted and not yet handled, oldest first
    crashed     \* an exception escaped a handler (the application stops)

vars == <<stage, tree, layers, tabs, props, prim_meta, prop_meta, values,
          timeline, queue, crashed>>

(***************************************************************************)
(* Bounds of the model.                                                    *)
(***************************************************************************)
MaxQueue == 2       \* user events are accepted while fewer are pending
MaxStack == 2       \* longest prim stack drawn for the attribution runs
MaxArcs == 2        \* longest composition-arc list drawn for them
MaxInput == 2       \* largest number typed in a frame input
MaxTimeCode == 3    \* largest time code of the stages drawn for the timeline runs

(***************************************************************************)
(* Sequence helpers.                                                       *)
(***************************************************************************)
RECURSIVE SeqsUpTo(_, _)
SeqsUpTo(S, n) ==
    IF n = 0 THEN {<<>>}
    ELSE LET shorter == SeqsUpTo(S, n - 1)
         IN  shorter \cup {Append(s, x) : s \in {t \in shorter : Len(t) = n - 1}, x \in S}

Range(s) == {s[i] : i \in DOMAIN s}

NoDuplicates(s) == \A i, j \in DOMAIN s : i # j => s[i] # s[j]

RECURSIVE Concat(_)
Concat(ss) == IF ss = <<>> THEN <<>> ELSE Head(ss) \o Concat(Tail(ss))

\* str.split(sep): the pieces of s between the occurrences of sep.
RECURSIVE split(_, _)
split(s, sep) ==
    IF \A i \in DOMAIN s : s[i] # sep THEN <<s>>
    ELSE LET i == CHOOSE k \in DOMAIN s :
                      s[k] = sep /\ \A m \in 1..(k - 1) : s[m] # sep
         IN  <<SubSeq(s, 1, i - 1)>> \o split(SubSeq(s, i + 1, Len(s)), sep)

(***************************************************************************)
(* Objects of the scene engine, as the handlers see them.                  *)
(***************************************************************************)
None == [t |-> "None"]
UsdPrim(path) == [t |-> "Usd.Prim", path |-> path]
SdfPrimSpec(layer, path) == [t |-> "Sdf.PrimSpec", layer |-> layer, path |-> path]
UsdAttribute(path, name) == [t |-> "Usd.Attribute", path |-> path, name |-> name]
UsdRelationship(path, name) == [t |-> "Usd.Relationship", path |-> path, name |-> name]
InvalidProperty(path, name) == [t |-> "Usd.Property", path |-> path, name |-> name]
SdfAttributeSpec(layer, path, name) ==
    [t |-> "Sdf.AttributeSpec", layer |-> layer, path |-> path, name |-> name]
SdfRelationshipSpec(layer, path, name) ==
    [t |-> "Sdf.RelationshipSpec", layer |-> layer, path |-> path, name |-> name]

\* Python truthiness of a handle: None and invalid (expired) handles are false.
Truthy(obj) == obj.t \notin {"None", "Usd.Property"}

\* Values: None, a number, a token or path, or an array of such values.
NoVal == [k |-> "none"]
Scalar(n) == [k |-> "scalar", v |-> n]
Array(s) == [k |-> "array", v |-> s]
Token(s) == [k |-> "token", v |-> s]
Dict(pairs) == [k |-> "dict", v |-> pairs]

\* `if value:` of values_table.py: None, 0 and empty sequences are false.
ValueTruthy(value) ==
    CASE value.k = "none" -> FALSE
      [] value.k = "scalar" -> value.v # 0
      [] value.k = "array" -> Len(value.v) > 0
      [] OTHER -> TRUE

(***************************************************************************)
(* The stage that is inspected.  Layer identifiers and spec paths are      *)
(* strings; a file name may hold any character, "|" included, an SdfPath   *)
(* may not.                                                                *)
(***************************************************************************)
RootLayer == <<"r">>
StrongLayer == <<"s">>
PipeLayer == <<"x", "|", "y">>
Layers == {RootLayer, StrongLayer, PipeLayer}

PseudoRoot == <<"/">>
PathA == <<"/", "A">>
PathB == <<"/", "B">>
PathM == <<"/", "M">>
PathC == <<"/", "C">>
PrimPaths == {PseudoRoot, PathA, PathB, PathC}
\* The tree nodes walked over in the selection cascade.
CascadePaths == {PseudoRoot, PathA}

Spec_(layer, path) == [layer |-> layer, path |-> path]
Arc(target, name) == [target |-> target, name |-> name]

\* /A is authored in the strong sublayer and in the root layer, and references /M
\* of a third layer; /B is authored in the root layer; the pseudo-root has no prim
\* stack.
InspectedStage ==
    [prim_stack |->
        (PseudoRoot :> <<>>) @@
        (PathA :> <<Spec_(StrongLayer, PathA), Spec_(RootLayer, PathA),
                    Spec_(PipeLayer, PathM)>>) @@
        (PathB :> <<Spec_(RootLayer, PathB)>>) @@
        (PathC :> <<Spec_(RootLayer, PathC)>>),
     arcs |->
        (PseudoRoot :> <<Arc(RootLayer, "root")>>) @@
        (PathA :> <<Arc(RootLayer, "root"), Arc(PipeLayer, "reference")>>) @@
        (PathB :> <<Arc(RootLayer, "root")>>) @@
        (PathC :> <<Arc(RootLayer, "root")>>),
     start |-> 1,
     end |-> 2]

\* Stages for the attribution runs: /A has any prim stack of distinct specs and
\* any arc list within the bounds (a layer may be the target of several arcs).
AllSpecs == {Spec_(RootLayer, PathA), Spec_(StrongLayer, PathA),
             Spec_(RootLayer, PathM), Spec_(PipeLayer, PathM)}
AllArcs == {Arc(RootLayer, "root"), Arc(StrongLayer, "payload"),
            Arc(PipeLayer, "reference")}
AttributionStages ==
    {[InspectedStage EXCEPT !.prim_stack[PathA] = ps, !.arcs[PathA] = as] :
        ps \in {s \in SeqsUpTo(AllSpecs, MaxStack) : NoDuplicates(s)},
        as \in SeqsUpTo(AllArcs, MaxArcs)}

\* Usd.Prim.GetPrimStack and Usd.PrimCompositionQuery(prim).GetCompositionArcs
GetPrimStack(prim) == stage.prim_stack[prim.path]
GetCompositionArcs(prim) == stage.arcs[prim.path]
\* Usd.Stage.GetPrimAtPath
GetPrimAtPath(path) == IF path \in PrimPaths THEN UsdPrim(path) ELSE None

(***************************************************************************)
(* What the layers author.  LayerData maps a spec site to the property     *)
(* specs of its prim spec, in authored order.                              *)
(***************************************************************************)
AttrSpec(name, is_array, default, samples) ==
    [name |-> name, kind |-> "attr", is_array |-> is_array, default |-> default,
     samples |-> samples, targets |-> <<>>]
RelSpec(name, targets) ==
    [name |-> name, kind |-> "rel", is_array |-> FALSE, default |-> NoVal,
     samples |-> <<>>, targets |-> targets]

LayerData ==
    (<<StrongLayer, PathA>> :>
        <<AttrSpec("size", FALSE, NoVal, <<<<1, Scalar(5)>>, <<2, Scalar(0)>>>>),
          RelSpec("rel", <<Token(PathM), Token(PathB)>>)>>) @@
    (<<RootLayer, PathA>> :>
        <<AttrSpec("size", FALSE, Scalar(0), <<>>),
          AttrSpec("pts", TRUE, Array(<<Scalar(1), Scalar(2)>>), <<>>),
          RelSpec("rel", <<Token(PathB)>>)>>) @@
    (<<RootLayer, PathB>> :>
        <<AttrSpec("vis", FALSE, NoVal, <<>>),
          RelSpec("rel", <<>>)>>) @@
    (<<PipeLayer, PathM>> :>
        <<AttrSpec("pts", TRUE, Array(<<>>), <<>>)>>)

\* Sdf.PrimSpec.properties
properties(layer, path) ==
    IF <<layer, path>> \in DOMAIN LayerData THEN LayerData[<<layer, path>>] ELSE <<>>

HasPropertySpec(layer, path, name) ==
    \E i \in DOMAIN properties(layer, path) : properties(layer, path)[i].name = name

PropertySpecData(layer, path, name) ==
    LET ps == properties(layer, path)
    IN  ps[CHOOSE i \in DOMAIN ps : ps[i].name = name]

\* The specs of a prim's stack that hold an opinion about a property, strongest first.
PropertyStack(path, name) ==
    SelectSeq(stage.prim_stack[path], LAMBDA s : HasPropertySpec(s.layer, s.path, name))

\* Usd.Prim.GetProperties: the composed properties, in dictionary order.
PropertyOrder == <<"pts", "rel", "size", "vis">>
GetProperties(prim) ==
    LET present == SelectSeq(PropertyOrder, LAMBDA n : PropertyStack(prim.path, n) # <<>>)
    IN  [i \in DOMAIN present |->
            IF PropertySpecData(PropertyStack(prim.path, present[i])[1].layer,
                                PropertyStack(prim.path, present[i])[1].path,
                                present[i]).kind = "attr"
            THEN UsdAttribute(prim.path, present[i])
            ELSE UsdRelationship(prim.path, present[i])]

\* Usd.Prim.GetProperty(name): an invalid property when the prim has none of that name.
GetProperty(prim, name) ==
    LET found == {i \in DOMAIN GetProperties(prim) : GetProperties(prim)[i].name = name}
    IN  IF found = {} THEN InvalidProperty(prim.path, name)
        ELSE GetProperties(prim)[CHOOSE i \in found : TRUE]

\* Sdf.PrimSpec.GetPropertyAtPath(path): path is a relative property path, ".name".
GetPropertyAtPath(prim_spec, path) ==
    IF Len(path) = 2 /\ path[1] = "." /\ HasPropertySpec(prim_spec.layer, prim_spec.path, path[2])
    THEN IF PropertySpecData(prim_spec.layer, prim_spec.path, path[2]).kind = "attr"
         THEN SdfAttributeSpec(prim_spec.layer, prim_spec.path, path[2])
         ELSE SdfRelationshipSpec(prim_spec.layer, prim_spec.path, path[2])
    ELSE None

\* The value a list of time samples gives at a frame (held: the latest sample at
\* or before the frame, the first sample before all of them).
Held(samples, frame) ==
    LET before == {i \in DOMAIN samples : samples[i][1] <= frame}
    IN  IF before = {} THEN samples[1][2]
        ELSE samples[CHOOSE i \in before : \A j \in before : j <= i][2]

\* Usd.Attribute.Get(frame): the strongest opinion; time samples of a layer win
\* over its default.
Get(attribute, frame) ==
    LET stack == PropertyStack(attribute.path, attribute.name)
        opinions == SelectSeq(stack, LAMBDA s :
            LET d == PropertySpecData(s.layer, s.path, attribute.name)
            IN  d.samples # <<>> \/ d.default # NoVal)
    IN  IF opinions = <<>> THEN NoVal
        ELSE LET d == PropertySpecData(opinions[1].layer, opinions[1].path, attribute.name)
             IN  IF d.samples # <<>> THEN Held(d.samples, frame) ELSE d.default

\* Usd.Attribute.GetTypeName().isArray and Usd.Relationship.GetTargets
TypeIsArray(attribute) ==
    LET s == PropertyStack(attribute.path, attribute.name)[1]
    IN  PropertySpecData(s.layer, s.path, attribute.name).is_array
GetTargets(relationship) ==
    LET s == PropertyStack(relationship.path, relationship.name)[1]
    IN  Array(PropertySpecData(s.layer, s.path, relationship.name).targets)

(***************************************************************************)
(* Metadata of composed objects and of specs: lists of (key, value).       *)
(***************************************************************************)
\* The asset-info and custom-data dictionaries authored on /B in the root layer.
AssetInfoB == <<<<"name", Token("b")>>, <<"version", Token("1")>>>>
CustomDataB == <<<<"note", Token("n")>>>>
\* Those authored on /C: the custom data uses the key "name" of the asset info.
AssetInfoC == <<<<"name", Token("c")>>>>
CustomDataC == <<<<"name", Token("x")>>>>

GetAllMetadata(obj) ==
    CASE obj = UsdPrim(PathA) ->
            <<<<"kind", Token("component")>>, <<"specifier", Token("def")>>>>
      [] obj = UsdPrim(PathB) ->
            <<<<"assetInfo", Dict(AssetInfoB)>>, <<"customData", Dict(CustomDataB)>>,
              <<"specifier", Token("def")>>>>
      [] obj = UsdPrim(PathC) ->
            <<<<"assetInfo", Dict(AssetInfoC)>>, <<"customData", Dict(CustomDataC)>>,
              <<"specifier", Token("def")>>>>
      [] obj.t = "Usd.Attribute" -> <<<<"typeName", Token("int")>>>>
      [] OTHER -> <<>>
GetAssetInfo(obj) ==
    CASE obj = UsdPrim(PathB) -> AssetInfoB
      [] obj = UsdPrim(PathC) -> AssetInfoC
      [] OTHER -> <<>>
GetCustomData(obj) ==
    CASE obj = UsdPrim(PathB) -> CustomDataB
      [] obj = UsdPrim(PathC) -> CustomDataC
      [] OTHER -> <<>>

\* Sdf.Spec.ListInfoKeys / GetInfo, assetInfo and customData
ListInfo(spec) ==
    CASE spec = SdfPrimSpec(RootLayer, PathA) ->
            <<<<"kind", Token("component")>>, <<"specifier", Token("def")>>>>
      [] spec = SdfPrimSpec(RootLayer, PathB) ->
            <<<<"assetInfo", Dict(AssetInfoB)>>, <<"customData", Dict(CustomDataB)>>,
              <<"specifier", Token("def")>>>>
      [] spec = SdfPrimSpec(RootLayer, PathC) ->
            <<<<"assetInfo", Dict(AssetInfoC)>>, <<"customData", Dict(CustomDataC)>>,
              <<"specifier", Token("def")>>>>
      [] spec.t = "Sdf.PrimSpec" -> <<<<"specifier", Token("over")>>>>
      [] spec.t = "Sdf.AttributeSpec" -> <<<<"typeName", Token("int")>>>>
      [] OTHER -> <<>>
assetInfo(spec) ==
    CASE spec = SdfPrimSpec(RootLayer, PathB) -> AssetInfoB
      [] spec = SdfPrimSpec(RootLayer, PathC) -> AssetInfoC
      [] OTHER -> <<>>
customData(spec) ==
    CASE spec = SdfPrimSpec(RootLayer, PathB) -> CustomDataB
      [] spec = SdfPrimSpec(RootLayer, PathC) -> CustomDataC
      [] OTHER -> <<>>

\* Faulty variant: the custom data is yielded before the asset info.
get_object_metadata_custom_data_first(usd_object) ==
    Concat(<<GetAllMetadata(usd_object), GetCustomData(usd_object), GetAssetInfo(usd_object)>>)

get_object_metadata(usd_object) ==
    Concat(<<GetAllMetadata(usd_object), GetAssetInfo(usd_object), GetCustomData(usd_object)>>)

get_spec_metadata(spec) ==
    ListInfo(spec) \o
    (IF spec.t \in {"Sdf.PrimSpec", "Sdf.AttributeSpec", "Sdf.RelationshipSpec"}
     THEN assetInfo(spec) \o customData(spec) ELSE <<>>)

(***************************************************************************)
(* PrimLayerStackTable.watch_prim: the rows of the layer-stack view.       *)
(***************************************************************************)
composed_key == <<"c", "o", "m", "p", "o", "s", "e", "d">>
ComposedRow == [key |-> composed_key, layer |-> <<"Composed">>, arc |-> ""]

\* key=f"{layer.identifier}|{spec.path}"
LayerRowKey(spec) == spec.layer \o <<"|">> \o spec.path

\* The loop over the prim stack; current_arc_index counts from 0 as in the code.
\* Faulty variant: the arc index is not advanced after a match.
RECURSIVE two_pointer_no_advance(_, _, _)
two_pointer_no_advance(prim_stack, composition_arcs, current_arc_index) ==
    IF prim_stack = <<>> THEN <<>>
    ELSE LET spec == Head(prim_stack)
             matches == /\ current_arc_index < Len(composition_arcs)
                        /\ spec.layer = composition_arcs[current_arc_index + 1].target
         IN  <<[key |-> LayerRowKey(spec), layer |-> spec.layer,
                arc |-> IF matches THEN composition_arcs[current_arc_index + 1].name
                        ELSE "Sublayer"]>>
             \o two_pointer_no_advance(Tail(prim_stack), composition_arcs, current_arc_index)

\* Faulty variant: the arc index advances for every spec, matched or not.
RECURSIVE two_pointer_advance_always(_, _, _)
two_pointer_advance_always(prim_stack, composition_arcs, current_arc_index) ==
    IF prim_stack = <<>> THEN <<>>
    ELSE LET spec == Head(prim_stack)
             matches == /\ current_arc_index < Len(composition_arcs)
                        /\ spec.layer = composition_arcs[current_arc_index + 1].target
             composition_arc_name ==
                 IF matches THEN composition_arcs[current_arc_index + 1].name
                 ELSE "Sublayer"
         IN  <<[key |-> LayerRowKey(spec), layer |-> spec.layer,
                arc |-> composition_arc_name]>>
             \o two_pointer_advance_always(Tail(prim_stack), composition_arcs,
                    current_arc_index + 1)

\* Faulty variant: a spec is matched with the first pending arc that targets its layer.
RECURSIVE two_pointer_search_ahead(_, _, _)
two_pointer_search_ahead(prim_stack, composition_arcs, current_arc_index) ==
    IF prim_stack = <<>> THEN <<>>
    ELSE LET spec == Head(prim_stack)
             found == {k \in (current_arc_index + 1)..Len(composition_arcs) :
                          spec.layer = composition_arcs[k].target}
             first == IF found = {} THEN 0
                      ELSE CHOOSE k \in found : \A l \in found : k <= l
             composition_arc_name ==
                 IF first # 0 THEN composition_arcs[first].name ELSE "Sublayer"
         IN  <<[key |-> LayerRowKey(spec), layer |-> spec.layer,
                arc |-> composition_arc_name]>>
             \o two_pointer_search_ahead(Tail(prim_stack), composition_arcs,
                    IF first # 0 THEN first ELSE current_arc_index)

\* Faulty variant: the bound test leaves out the last arc.
RECURSIVE two_pointer_last_arc_unused(_, _, _)
two_pointer_last_arc_unused(prim_stack, composition_arcs, current_arc_index) ==
    IF prim_stack = <<>> THEN <<>>
    ELSE LET spec == Head(prim_stack)
             matches == /\ current_arc_index < Len(composition_arcs) - 1
                        /\ spec.layer = composition_arcs[current_arc_index + 1].target
             composition_arc_name ==
                 IF matches THEN composition_arcs[current_arc_index + 1].name
                 ELSE "Sublayer"
         IN  <<[key |-> LayerRowKey(spec), layer |-> spec.layer,
                arc |-> composition_arc_name]>>
             \o two_pointer_last_arc_unused(Tail(prim_stack), composition_arcs,
                    IF matches THEN current_arc_index + 1 ELSE current_arc_index)

RECURSIVE two_pointer(_, _, _)
two_pointer(prim_stack, composition_arcs, current_arc_index) ==
    IF prim_stack = <<>> THEN <<>>
    ELSE LET spec == Head(prim_stack)
             matches == /\ current_arc_index < Len(composition_arcs)
                        /\ spec.layer = composition_arcs[current_arc_index + 1].target
             composition_arc_name ==
                 IF matches THEN composition_arcs[current_arc_index + 1].name
                 ELSE "Sublayer"
         IN  <<[key |-> LayerRowKey(spec), layer |-> spec.layer,
                arc |-> composition_arc_name]>>
             \o two_pointer(Tail(prim_stack), composition_arcs,
                            IF matches THEN current_arc_index + 1 ELSE current_arc_index)

Reverse(s) == [i \in DOMAIN s |-> s[Len(s) + 1 - i]]

\* Faulty variant: the prim stack is walked weakest first.
attribute_weakest_first(prim) ==
    two_pointer(Reverse(GetPrimStack(prim)), GetCompositionArcs(prim), 0)

attribute(prim) == two_pointer(GetPrimStack(prim), GetCompositionArcs(prim), 0)

\* Faulty variant: the table is not cleared before it is populated.
layer_stack_rows_not_cleared(old_rows, prim) == old_rows \o <<ComposedRow>> \o attribute(prim)

\* Faulty variant: the "Composed" row is added after the rows of the prim stack.
layer_stack_rows_composed_last(old_rows, prim) == attribute(prim) \o <<ComposedRow>>

\* Faulty variant: a prim without prim stack is given a row for its first arc.
layer_stack_rows_arc_row(old_rows, prim) ==
    <<ComposedRow>> \o
    (IF GetPrimStack(prim) = <<>> /\ GetCompositionArcs(prim) # <<>>
     THEN <<[key |-> GetCompositionArcs(prim)[1].target \o <<"|">> \o prim.path,
             layer |-> GetCompositionArcs(prim)[1].target,
             arc |-> GetCompositionArcs(prim)[1].name]>>
     ELSE attribute(prim))

\* The rows after watch_prim ran for a valid prim, given the rows before it:
\* clear(), the "Composed" row, one row per spec.
layer_stack_rows(old_rows, prim) == <<ComposedRow>> \o attribute(prim)

(***************************************************************************)
(* PrimPropertiesTable.watch_data_object and MetadataTable.watch_data_object*)
(***************************************************************************)
property_rows(data_object) ==
    IF data_object.t = "Usd.Prim"
    THEN [i \in DOMAIN GetProperties(data_object) |->
            [key |-> GetProperties(data_object)[i].name,
             label |-> IF GetProperties(data_object)[i].t = "Usd.Attribute"
                       THEN "Attr" ELSE "Rel"]]
    ELSE IF data_object.t = "Sdf.PrimSpec"
    THEN [i \in DOMAIN properties(data_object.layer, data_object.path) |->
            [key |-> properties(data_object.layer, data_object.path)[i].name,
             label |-> IF properties(data_object.layer, data_object.path)[i].kind = "attr"
                       THEN "Attr" ELSE "Rel"]]
    ELSE <<>>

IsSpec(obj) == obj.t \in {"Sdf.PrimSpec", "Sdf.AttributeSpec", "Sdf.RelationshipSpec"}
IsUsdObject(obj) == obj.t \in {"Usd.Prim", "Usd.Attribute", "Usd.Relationship"}

metadata_rows(data_object) ==
    LET data == IF IsSpec(data_object) THEN get_spec_metadata(data_object)
                ELSE IF IsUsdObject(data_object) THEN get_object_metadata(data_object)
                ELSE <<>>
    IN  [i \in DOMAIN data |-> [key |-> data[i][1], value |-> data[i][2]]]

\* DataTable.add_row raises DuplicateKey for a key the table already holds.
DuplicateKey(rows) == \E i, j \in DOMAIN rows : i # j /\ rows[i].key = rows[j].key

\* DataTable.add_row posts RowHighlighted when it adds the first row of an empty
\* table; clear() on its own posts nothing.
FirstRowHighlighted(q, type, rows) ==
    IF rows = <<>> THEN q ELSE Append(q, [type |-> type, row_key |-> rows[1].key])

\* table.data_object = value on a PrimPropertiesTable / MetadataTable: the watcher
\* runs when the value changed and returns early on a false one.
Repopulates(table, value) == value # table.data_object /\ Truthy(value)

props_assigned(value) ==
    IF Repopulates(props, value)
    THEN [data_object |-> value, rows |-> property_rows(value), cursor |-> 0]
    ELSE [props EXCEPT !.data_object = value]

meta_assigned(table, value) ==
    IF Repopulates(table, value)
    THEN [data_object |-> value, rows |-> metadata_rows(value), cursor |-> 0]
    ELSE [table EXCEPT !.data_object = value]

(***************************************************************************)
(* PrimDataTabs.watch_prim: hand the prim to the data holder of the active *)
(* pane.  AssignTabsPrim is the assignment `prim_data_tabs.prim = value`   *)
(* with everything it triggers; q is the queue the posts are appended to.  *)
(***************************************************************************)
\* Faulty variant: the prim is handed to the property list whatever pane is active.
active_widget_assigned_properties_only(value, q) ==
    /\ props' = props_assigned(value)
    /\ queue' = IF Repopulates(props, value)
                THEN FirstRowHighlighted(q, "PrimPropertiesTable.RowHighlighted",
                                         property_rows(value))
                ELSE q
    /\ crashed' = FALSE
    /\ UNCHANGED prim_meta

active_widget_assigned(value, q) ==
    IF tabs.active = "Properties"
    THEN /\ props' = props_assigned(value)
         /\ queue' = IF Repopulates(props, value)
                     THEN FirstRowHighlighted(q, "PrimPropertiesTable.RowHighlighted",
                                              property_rows(value))
                     ELSE q
         /\ crashed' = FALSE
         /\ UNCHANGED prim_meta
    ELSE /\ prim_meta' = meta_assigned(prim_meta, value)
         /\ queue' = IF Repopulates(prim_meta, value)
                     THEN FirstRowHighlighted(q, "MetadataTable.RowHighlighted",
                                              metadata_rows(value))
                     ELSE q
         /\ crashed' = (Repopulates(prim_meta, value) /\ DuplicateKey(metadata_rows(value)))
         /\ UNCHANGED props

AssignTabsPrim(value, q) ==
    /\ tabs' = [tabs EXCEPT !.prim = value]
    /\ IF value # tabs.prim /\ Truthy(value)
       THEN active_widget_assigned(value, q)
       ELSE queue' = q /\ UNCHANGED <<props, prim_meta, crashed>>

(***************************************************************************)
(* values_table.py: the display states and the ValuesTable.                *)
(***************************************************************************)
NoValueDisplayState == [kind |-> "NoValueDisplayState"]
PropertyValueDisplayState(usd_property) ==
    [kind |-> "PropertyValueDisplayState", usd_property |-> usd_property]
PropertySpecValueDisplayState(usd_property) ==
    [kind |-> "PropertySpecValueDisplayState", prop_spec |-> usd_property]
MetadatumValueDisplayState(value) ==
    [kind |-> "MetadatumValueDisplayState", value |-> value]

frame_dependent(state) == state.kind = "PropertyValueDisplayState"

\* Faulty variant: the rows are cleared, the columns are kept.
enter_rows_only(table) == [table EXCEPT !.rows = <<>>]

\* ValuesTableDisplayState.enter: clear the rows, remove every column.
enter(table) == [table EXCEPT !.rows = <<>>, !.columns = <<>>]

\* Faulty variant: a sequence of one element is shown as a single value.
show_one_item_as_scalar(table, value, is_array) ==
    IF ~ValueTruthy(value)
    THEN [table EXCEPT !.columns = Append(@, "No Value")]
    ELSE IF is_array /\ Len(value.v) > 1
    THEN [table EXCEPT !.columns = @ \o <<"Index", "Value">>,
                       !.rows = @ \o [i \in DOMAIN value.v |-> <<Scalar(i - 1), value.v[i]>>]]
    ELSE [table EXCEPT !.columns = Append(@, "Value"),
                       !.rows = Append(@, <<IF is_array THEN value.v[1] ELSE value>>)]

\* Faulty variant: the placeholder is a row under the "No Value" column.
show_placeholder_row(table, value, is_array) ==
    IF ~ValueTruthy(value)
    THEN [table EXCEPT !.columns = Append(@, "No Value"), !.rows = Append(@, <<NoVal>>)]
    ELSE IF is_array
    THEN [table EXCEPT !.columns = @ \o <<"Index", "Value">>,
                       !.rows = @ \o [i \in DOMAIN value.v |-> <<Scalar(i - 1), value.v[i]>>]]
    ELSE [table EXCEPT !.columns = Append(@, "Value"), !.rows = Append(@, <<value>>)]

\* The tail shared by the two property states: "No Value", indexed rows or one row.
show(table, value, is_array) ==
    IF ~ValueTruthy(value)
    THEN [table EXCEPT !.columns = Append(@, "No Value")]
    ELSE IF is_array
    THEN [table EXCEPT !.columns = @ \o <<"Index", "Value">>,
                       !.rows = @ \o [i \in DOMAIN value.v |-> <<Scalar(i - 1), value.v[i]>>]]
    ELSE [table EXCEPT !.columns = Append(@, "Value"), !.rows = Append(@, <<value>>)]

\* The frame PropertyValueDisplayState.apply evaluates the attribute at.
evaluation_frame(table) == table.frame

PropertyValue_apply(state, table) ==
    IF ~Truthy(state.usd_property) THEN table
    ELSE LET cleared == [table EXCEPT !.rows = <<>>]
             p == state.usd_property
         IN  IF p.t = "Usd.Attribute"
             THEN show(cleared, Get(p, evaluation_frame(table)),
                       ValueTruthy(Get(p, evaluation_frame(table))) /\ TypeIsArray(p))
             ELSE IF p.t = "Usd.Relationship"
             THEN show(cleared, GetTargets(p), ValueTruthy(GetTargets(p)))
             ELSE show(cleared, NoVal, FALSE)

PropertySpecValue_apply(state, table) ==
    IF ~Truthy(state.prop_spec) THEN table
    ELSE LET cleared == [table EXCEPT !.rows = <<>>]
             d == PropertySpecData(state.prop_spec.layer, state.prop_spec.path,
                                   state.prop_spec.name)
         IN  IF state.prop_spec.t = "Sdf.AttributeSpec"
             THEN IF Len(d.samples) # 0
                  THEN show(cleared, Array([i \in DOMAIN d.samples |-> d.samples[i][2]]), TRUE)
                  ELSE show(cleared, d.default, ValueTruthy(d.default) /\ d.is_array)
             ELSE IF state.prop_spec.t = "Sdf.RelationshipSpec"
             THEN show(cleared, Array(d.targets), TRUE)
             ELSE show(cleared, NoVal, FALSE)

MetadatumValue_apply(state, table) ==
    [table EXCEPT !.columns = Append(@, "Value"), !.rows = Append(@, <<state.value>>)]

NoValue_apply(state, table) == [table EXCEPT !.columns = Append(@, "No Value")]

apply(state, table) ==
    CASE state.kind = "PropertyValueDisplayState" -> PropertyValue_apply(state, table)
      [] state.kind = "PropertySpecValueDisplayState" -> PropertySpecValue_apply(state, table)
      [] state.kind = "MetadatumValueDisplayState" -> MetadatumValue_apply(state, table)
      [] OTHER -> NoValue_apply(state, table)

\* Faulty variant: the new state is entered and its population is left for later.
watch_state_enter_only(table, state) == enter([table EXCEPT !.state = state])

\* ValuesTable.watch_state, after `table.state = state` (a new state object is never
\* equal to the current one, so the watcher always runs).
watch_state(table, state) == apply(state, enter([table EXCEPT !.state = state]))

\* Faulty variant: the table is cleared on every frame change and not rendered again.
watch_frame_enter_only(table) == enter(table)

\* ValuesTable.watch_frame, run by `table.frame = frame` when the frame differs.
watch_frame(table) ==
    IF frame_dependent(table.state) THEN apply(table.state, enter(table)) ELSE table

frame_assigned(table, frame) ==
    IF frame = table.frame THEN table ELSE watch_frame([table EXCEPT !.frame = frame])

(***************************************************************************)
(* Timeline: the slider and the two frame inputs.                          *)
(***************************************************************************)
DefaultStart == 1
DefaultEnd == 100

\* `x or default` on a time code.
Or(x, default) == IF x = 0 THEN default ELSE x

Digits == <<"0", "1", "2", "3", "4", "5", "6", "7", "8", "9">>
DigitOf(c) == (CHOOSE i \in DOMAIN Digits : Digits[i] = c) - 1

\* str.isdigit and int(str)
isdigit(text) == text # <<>> /\ \A i \in DOMAIN text : text[i] \in Range(Digits)
RECURSIVE int(_)
int(text) ==
    IF Len(text) = 1 THEN DigitOf(text[1])
    ELSE 10 * int(SubSeq(text, 1, Len(text) - 1)) + DigitOf(text[Len(text)])

\* Faulty variant: the slider's value is kept when the start frame passes it.
Max_keeps_value(a, b) == b

Max(a, b) == IF a >= b THEN a ELSE b
Min(a, b) == IF a <= b THEN a ELSE b

\* What a user can type in a frame input: the numbers up to MaxInput and a
\* negative number.
InputTexts == {<<Digits[n + 1]>> : n \in 0..MaxInput} \cup {<<"-", "1">>}

\* slider.value = value: the slider posts Changed when its value changes.
SliderAssigned(q, value) ==
    IF value = timeline.value THEN q
    ELSE Append(q, [type |-> "Slider.Changed", value |-> value])

(***************************************************************************)
(* The state after the application is mounted.                             *)
(***************************************************************************)
NoNode == [t |-> "None"]
TreeNode(data) == [t |-> "TreeNode", data |-> data]
EmptyTable == [data_object |-> None, rows |-> <<>>, cursor |-> 0]

\* Timeline.compose: the slider range comes from the stage's time codes.
slider_range(usd_stage) ==
    [min |-> Or(usd_stage.start, DefaultStart), max |-> Or(usd_stage.end, DefaultEnd)]

Mounted(usd_stage) ==
    /\ stage = usd_stage
    /\ tree = [cursor_node |-> NoNode, prim |-> None]
    /\ layers = [prim |-> None, rows |-> <<>>, cursor |-> 0]
    /\ tabs = [prim |-> None, active |-> "Properties"]
    /\ props = EmptyTable
    /\ prim_meta = EmptyTable
    /\ prop_meta = EmptyTable
    /\ values = watch_state([state |-> NoValueDisplayState, frame |-> 0,
                             columns |-> <<>>, rows |-> <<>>], NoValueDisplayState)
    /\ timeline = [min |-> slider_range(usd_stage).min, max |-> slider_range(usd_stage).max,
                   value |-> slider_range(usd_stage).min, current_frame |-> 0]
    /\ queue = <<>>
    /\ crashed = FALSE

Init == Mounted(InspectedStage)

(***************************************************************************)
(* What the user does: each move of a cursor, of the slider, each tab      *)
(* change and each edit of a frame input posts one message.                *)
(***************************************************************************)
Accepting == ~crashed /\ Len(queue) < MaxQueue

\* StageTree.NodeHighlighted.__init__: the message carries the prim of the node.
HighlightNode(path) ==
    /\ Accepting
    /\ tree.cursor_node # TreeNode(path)
    /\ tree' = [cursor_node |-> TreeNode(path), prim |-> GetPrimAtPath(path)]
    /\ queue' = Append(queue, [type |-> "StageTree.NodeHighlighted",
                               prim |-> GetPrimAtPath(path)])
    /\ UNCHANGED <<stage, layers, tabs, props, prim_meta, prop_meta, values, timeline, crashed>>

HighlightLayerRow(i) ==
    /\ Accepting
    /\ i \in 0..(Len(layers.rows) - 1) /\ i # layers.cursor
    /\ layers' = [layers EXCEPT !.cursor = i]
    /\ queue' = Append(queue, [type |-> "PrimLayerStackTable.RowHighlighted",
                               row_key |-> layers.rows[i + 1].key])
    /\ UNCHANGED <<stage, tree, tabs, props, prim_meta, prop_meta, values, timeline, crashed>>

HighlightPropertyRow(i) ==
    /\ Accepting
    /\ tabs.active = "Properties"
    /\ i \in 0..(Len(props.rows) - 1) /\ i # props.cursor
    /\ props' = [props EXCEPT !.cursor = i]
    /\ queue' = Append(queue, [type |-> "PrimPropertiesTable.RowHighlighted",
                               row_key |-> props.rows[i + 1].key])
    /\ UNCHANGED <<stage, tree, layers, tabs, prim_meta, prop_meta, values, timeline, crashed>>

HighlightMetadataRow(i) ==
    /\ Accepting
    /\ tabs.active = "Metadata"
    /\ i \in 0..(Len(prim_meta.rows) - 1) /\ i # prim_meta.cursor
    /\ prim_meta' = [prim_meta EXCEPT !.cursor = i]
    /\ queue' = Append(queue, [type |-> "MetadataTable.RowHighlighted",
                               row_key |-> prim_meta.rows[i + 1].key])
    /\ UNCHANGED <<stage, tree, layers, tabs, props, prop_meta, values, timeline, crashed>>

ActivateTab(label) ==
    /\ Accepting
    /\ label # tabs.active
    /\ tabs' = [tabs EXCEPT !.active = label]
    /\ queue' = Append(queue, [type |-> "TabbedContent.TabActivated", label |-> label])
    /\ UNCHANGED <<stage, tree, layers, props, prim_meta, prop_meta, values, timeline, crashed>>

MoveSlider(value) ==
    /\ Accepting
    /\ value \in timeline.min..timeline.max /\ value # timeline.value
    /\ timeline' = [timeline EXCEPT !.value = value]
    /\ queue' = SliderAssigned(queue, value)
    /\ UNCHANGED <<stage, tree, layers, tabs, props, prim_meta, prop_meta, values, crashed>>

TypeFrame(input, text) ==
    /\ Accepting
    /\ queue' = Append(queue, [type |-> "Input.Changed", input |-> input, value |-> text])
    /\ UNCHANGED <<stage, tree, layers, tabs, props, prim_meta, prop_meta, values, timeline,
                   crashed>>

(***************************************************************************)
(* The handlers.  Each takes the oldest pending message.                   *)
(***************************************************************************)
Pending(type) == ~crashed /\ queue # <<>> /\ Head(queue).type = type

\* An exception escapes the handler: the application stops.
Raise ==
    /\ crashed' = TRUE
    /\ queue' = <<>>

\* UsdInspectApp._stage_tree_node_highlighted, with PrimLayerStackTable.watch_prim,
\* which `table.prim = event.prim` runs when the prim differs.
_stage_tree_node_highlighted ==
    /\ Pending("StageTree.NodeHighlighted")
    /\ LET prim == Head(queue).prim
       IN  IF prim # layers.prim /\ Truthy(prim)
           THEN /\ layers' = [layers EXCEPT !.prim = prim,
                                            !.rows = layer_stack_rows(layers.rows, prim),
                                            !.cursor = 0]
                /\ queue' = FirstRowHighlighted(Tail(queue),
                                "PrimLayerStackTable.RowHighlighted",
                                layer_stack_rows(layers.rows, prim))
                /\ crashed' = DuplicateKey(layer_stack_rows(layers.rows, prim))
           ELSE /\ layers' = [layers EXCEPT !.prim = prim]
                /\ queue' = Tail(queue)
                /\ UNCHANGED crashed
    /\ UNCHANGED <<stage, tree, tabs, props, prim_meta, prop_meta, values, timeline>>

\* Sdf.Layer.FindOrOpen(identifier) and Sdf.Layer.GetPrimAtPath(path)
FindOrOpen(identifier) == IF identifier \in Layers THEN identifier ELSE None
SpecExists(layer, path) ==
    path = PseudoRoot \/ \E p \in PrimPaths : Spec_(layer, path) \in Range(stage.prim_stack[p])
LayerGetPrimAtPath(layer, path) ==
    IF SpecExists(layer, path) THEN SdfPrimSpec(layer, path) ELSE None

\* `layer_path, prim_spec_path = row_key.split("|")` unpacks exactly two parts, and
\* FindOrOpen must return a layer for `.GetPrimAtPath` to be called on it.
Resolvable(row_key) ==
    /\ Len(split(row_key, "|")) = 2
    /\ split(row_key, "|")[1] \in Layers

resolve_prim_spec(row_key) ==
    LayerGetPrimAtPath(FindOrOpen(split(row_key, "|")[1]), split(row_key, "|")[2])

\* PrimLayerStackTable._handle_row_highlighted resolves the row's prim spec the same
\* way to set current_spec, which nothing mounted in this application reads; then
\* UsdInspectApp._layer_highlighted runs as the message bubbles up.
_layer_highlighted ==
    /\ Pending("PrimLayerStackTable.RowHighlighted")
    /\ LET row_key == Head(queue).row_key
       IN  IF row_key # composed_key /\ ~Resolvable(row_key)
           THEN Raise /\ UNCHANGED <<tabs, props, prim_meta>>
           ELSE IF row_key = composed_key
           THEN IF tree.cursor_node = NoNode
                THEN /\ queue' = Tail(queue)
                     /\ UNCHANGED <<tabs, props, prim_meta, crashed>>
                ELSE AssignTabsPrim(GetPrimAtPath(tree.cursor_node.data), Tail(queue))
           ELSE AssignTabsPrim(resolve_prim_spec(row_key), Tail(queue))
    /\ UNCHANGED <<stage, tree, layers, prop_meta, values, timeline>>

\* Faulty variant: the property name is used as the path, without the leading ".".
relative_property_path_no_marker(name) == <<name>>

\* f".{event.row_key.value}": the relative path of a property of a prim spec.
relative_property_path(name) == <<".", name>>

\* The property the handler resolves on the object PrimDataTabs.prim holds.
resolve_property(prim, name) ==
    IF prim.t = "Usd.Prim" THEN GetProperty(prim, name)
    ELSE GetPropertyAtPath(prim, relative_property_path(name))

property_state(prim, prim_property) ==
    IF prim.t = "Usd.Prim" THEN PropertyValueDisplayState(prim_property)
    ELSE PropertySpecValueDisplayState(prim_property)

\* UsdInspectApp._property_highlighted
_property_highlighted ==
    /\ Pending("PrimPropertiesTable.RowHighlighted")
    /\ LET prim == tabs.prim
           prim_property == resolve_property(prim, Head(queue).row_key)
       IN  IF ~Truthy(prim)
           THEN /\ values' = watch_state(values, NoValueDisplayState)
                /\ queue' = Tail(queue)
                /\ UNCHANGED <<prop_meta, crashed>>
           ELSE /\ values' = watch_state(values, property_state(prim, prim_property))
                /\ prop_meta' = meta_assigned(prop_meta, prim_property)
                /\ queue' = Tail(queue)
                /\ crashed' = (/\ Repopulates(prop_meta, prim_property)
                               /\ DuplicateKey(metadata_rows(prim_property)))
    /\ UNCHANGED <<stage, tree, layers, tabs, props, prim_meta, timeline>>

\* DataTable.get_cell(row_key, "value"); CellDoesNotExist when the row is gone.
HasRow(table, row_key) == \E i \in DOMAIN table.rows : table.rows[i].key = row_key
\* Faulty variant: the cell is read from the first row, whatever the key.
get_cell_first_row(table, row_key) == table.rows[1].value

get_cell(table, row_key) ==
    table.rows[CHOOSE i \in DOMAIN table.rows : table.rows[i].key = row_key].value

\* UsdInspectApp._prim_metadatum_highlighted
_prim_metadatum_highlighted ==
    /\ Pending("MetadataTable.RowHighlighted")
    /\ IF HasRow(prim_meta, Head(queue).row_key)
       THEN /\ values' = watch_state(values, MetadatumValueDisplayState(
                                         get_cell(prim_meta, Head(queue).row_key)))
            /\ queue' = Tail(queue)
            /\ UNCHANGED crashed
       ELSE Raise /\ UNCHANGED values
    /\ UNCHANGED <<stage, tree, layers, tabs, props, prim_meta, prop_meta, timeline>>

\* PrimDataTabs._prim_data_tab_changed: the holder of the pane that is active now
\* gets PrimDataTabs.prim.
_prim_data_tab_changed ==
    /\ Pending("TabbedContent.TabActivated")
    /\ active_widget_assigned(tabs.prim, Tail(queue))
    /\ UNCHANGED <<stage, tree, layers, tabs, prop_meta, values, timeline>>

\* Timeline._frame_changed (the slider's Changed message)
Timeline_frame_changed ==
    /\ Pending("Slider.Changed")
    /\ LET frame == Head(queue).value
       IN  IF frame = 0
           THEN queue' = Tail(queue) /\ UNCHANGED timeline
           ELSE /\ timeline' = [timeline EXCEPT !.current_frame = frame]
                /\ queue' = Append(Tail(queue),
                                   [type |-> "Timeline.FrameChanged", frame |-> frame])
    /\ UNCHANGED <<stage, tree, layers, tabs, props, prim_meta, prop_meta, values, crashed>>

\* UsdInspectApp._frame_changed
_frame_changed ==
    /\ Pending("Timeline.FrameChanged")
    /\ values' = IF Head(queue).frame = 0 THEN values
                 ELSE frame_assigned(values, Head(queue).frame)
    /\ queue' = Tail(queue)
    /\ UNCHANGED <<stage, tree, layers, tabs, props, prim_meta, prop_meta, timeline, crashed>>

\* Timeline._start_frame_changed and Timeline._end_frame_changed
_start_frame_changed ==
    /\ Pending("Input.Changed") /\ Head(queue).input = "start_frame_input"
    /\ LET text == Head(queue).value
       IN  IF isdigit(text) /\ int(text) < timeline.max
           THEN /\ timeline' = [timeline EXCEPT !.min = int(text),
                                                !.value = Max(int(text), timeline.value)]
                /\ queue' = SliderAssigned(Tail(queue), Max(int(text), timeline.value))
           ELSE queue' = Tail(queue) /\ UNCHANGED timeline
    /\ UNCHANGED <<stage, tree, layers, tabs, props, prim_meta, prop_meta, values, crashed>>

_end_frame_changed ==
    /\ Pending("Input.Changed") /\ Head(queue).input = "end_frame_input"
    /\ LET text == Head(queue).value
       IN  IF isdigit(text) /\ int(text) > timeline.min
           THEN /\ timeline' = [timeline EXCEPT !.max = int(text),
                                                !.value = Min(int(text), timeline.value)]
                /\ queue' = SliderAssigned(Tail(queue), Min(int(text), timeline.value))
           ELSE queue' = Tail(queue) /\ UNCHANGED timeline
    /\ UNCHANGED <<stage, tree, layers, tabs, props, prim_meta, prop_meta, values, crashed>>

(***************************************************************************)
(* Specifications.                                                         *)
(***************************************************************************)
UserSelects ==
    \/ \E path \in CascadePaths : HighlightNode(path)
    \/ \E i \in 0..(Len(layers.rows) - 1) : HighlightLayerRow(i)
    \/ \E i \in 0..(Len(props.rows) - 1) : HighlightPropertyRow(i)
    \/ \E i \in 0..(Len(prim_meta.rows) - 1) : HighlightMetadataRow(i)
    \/ \E label \in {"Properties", "Metadata"} : ActivateTab(label)

UserSetsFrame ==
    \/ \E value \in timeline.min..timeline.max : MoveSlider(value)
    \/ \E input \in {"start_frame_input", "end_frame_input"}, text \in InputTexts :
          TypeFrame(input, text)

HandleSelection ==
    \/ _stage_tree_node_highlighted
    \/ _layer_highlighted
    \/ _property_highlighted
    \/ _prim_metadatum_highlighted
    \/ _prim_data_tab_changed

HandleFrame ==
    \/ Timeline_frame_changed
    \/ _frame_changed
    \/ _start_frame_changed
    \/ _end_frame_changed

\* The selection cascade: tree, layer stack, property and metadata rows, tabs.
Next == UserSelects \/ HandleSelection

Spec == Init /\ [][Next]_vars

\* The timeline over a selection made in the property list of /A.
NextFrames ==
    \/ HighlightNode(PathA)
    \/ \E i \in 0..(Len(props.rows) - 1) : HighlightPropertyRow(i)
    \/ UserSetsFrame
    \/ _stage_tree_node_highlighted
    \/ _layer_highlighted
    \/ _property_highlighted
    \/ HandleFrame

SpecFrames == Init /\ [][NextFrames]_vars

\* Attribution over every prim stack and arc list within the bounds.
InitAttribution == \E usd_stage \in AttributionStages : Mounted(usd_stage)

NextAttribution ==
    \/ \E path \in CascadePaths : HighlightNode(path)
    \/ _stage_tree_node_highlighted
    \/ _layer_highlighted
    \/ _property_highlighted

SpecAttribution == InitAttribution /\ [][NextAttribution]_vars

\* The slider moved over every kind of display state of /A and /B: property
\* (composed), property spec and metadatum.
NextDisplay ==
    \/ \E path \in {PathA, PathB} : HighlightNode(path)
    \/ \E i \in 0..(Len(layers.rows) - 1) : HighlightLayerRow(i)
    \/ \E i \in 0..(Len(props.rows) - 1) : HighlightPropertyRow(i)
    \/ ActivateTab("Metadata")
    \/ \E value \in timeline.min..timeline.max : MoveSlider(value)
    \/ HandleSelection
    \/ Timeline_frame_changed
    \/ _frame_changed

SpecDisplay == Init /\ [][NextDisplay]_vars

\* The values PrimDataTabs.prim is declared to take: a composed prim, a prim spec,
\* or None (what Sdf.Layer.GetPrimAtPath returns for a path without a spec).
BindableObjects ==
    {None, UsdPrim(PathA), SdfPrimSpec(RootLayer, PathA), SdfPrimSpec(StrongLayer, PathA)}

\* `prim_data_tabs.prim = value`, the assignment both branches of _layer_highlighted
\* end with, for any value of the attribute's type.
BindPrim(value) ==
    /\ Accepting
    /\ AssignTabsPrim(value, queue)
    /\ UNCHANGED <<stage, tree, layers, prop_meta, values, timeline>>

\* PrimDataTabs on its own: prim assignments and tab activations.
NextTabs ==
    \/ \E value \in BindableObjects : BindPrim(value)
    \/ \E label \in {"Properties", "Metadata"} : ActivateTab(label)
    \/ _prim_data_tab_changed
    \/ _property_highlighted
    \/ _prim_metadatum_highlighted

SpecTabs == Init /\ [][NextTabs]_vars

\* Stages for the timeline runs: every time-code range start < end within the
\* bound, a start time code of 0 included.
TimeCodeStages ==
    {[InspectedStage EXCEPT !.start = start_frame, !.end = end_frame] :
        start_frame \in 0..MaxTimeCode, end_frame \in 0..MaxTimeCode}

InitTimeCodes ==
    \E usd_stage \in TimeCodeStages : usd_stage.start < usd_stage.end /\ Mounted(usd_stage)

\* The timeline as composed, before any frame input is edited: the slider is
\* moved over a selected property of /A.
NextTimeCodes ==
    \/ HighlightNode(PathA)
    \/ \E value \in timeline.min..timeline.max : MoveSlider(value)
    \/ _stage_tree_node_highlighted
    \/ _layer_highlighted
    \/ _property_highlighted
    \/ Timeline_frame_changed
    \/ _frame_changed

SpecTimeCodes == InitTimeCodes /\ [][NextTimeCodes]_vars

\* The prim metadata view over /B and /C, composed and per layer.
NextMetadata ==
    \/ \E path \in {PathB, PathC} : HighlightNode(path)
    \/ \E i \in 0..(Len(layers.rows) - 1) : HighlightLayerRow(i)
    \/ \E label \in {"Properties", "Metadata"} : ActivateTab(label)
    \/ HandleSelection

SpecMetadata == Init /\ [][NextMetadata]_vars

(***************************************************************************)
(* Properties of the layer-stack view (checked under SpecAttribution).     *)
(***************************************************************************)
Populated == Truthy(layers.prim)
NonComposed(rows) == SelectSeq(rows, LAMBDA r : r.key # composed_key)
ArcLabelled(rows) == SelectSeq(rows, LAMBDA r : r.key # composed_key /\ r.arc # "Sublayer")

\* s is t with some elements left out, the others in the same order.
RECURSIVE IsSubsequence(_, _)
IsSubsequence(s, t) ==
    IF s = <<>> THEN TRUE
    ELSE IF t = <<>> THEN FALSE
    ELSE IF Head(s) = Head(t) THEN IsSubsequence(Tail(s), Tail(t))
    ELSE IsSubsequence(s, Tail(t))

\* C1: the layer-stack view of prim P holds one row per entry of P's prim stack
\* besides the "Composed" row, and the i-th such row names the layer and the spec
\* path of prim_stack[i].
C1_OneRecordPerSpec ==
    Populated =>
        LET records == NonComposed(layers.rows)
            prim_stack == GetPrimStack(layers.prim)
        IN  /\ Len(records) = Len(prim_stack)
            /\ \A i \in DOMAIN prim_stack :
                  /\ records[i].layer = prim_stack[i].layer
                  /\ records[i].key = prim_stack[i].layer \o <<"|">> \o prim_stack[i].path

C1_Witness ==
    /\ layers.prim = UsdPrim(PathA)
    /\ Len(GetPrimStack(layers.prim)) = 2
    /\ GetPrimStack(layers.prim)[1] # GetPrimStack(layers.prim)[2]
    /\ Len(layers.rows) = 3

\* C2: every arc label of the view is "Sublayer" or the display name of an arc of
\* P, and the labels other than "Sublayer" are the names of arcs taken in the order
\* of P's arc list, no arc twice.
C2_ArcLabelsInOrder ==
    Populated =>
        LET arcs == GetCompositionArcs(layers.prim)
            names == [i \in DOMAIN arcs |-> arcs[i].name]
            labelled == ArcLabelled(layers.rows)
        IN  /\ \A i \in DOMAIN layers.rows :
                  layers.rows[i].key # composed_key =>
                      layers.rows[i].arc \in {"Sublayer"} \cup Range(names)
            /\ IsSubsequence([i \in DOMAIN labelled |-> labelled[i].arc], names)

C2_Witness ==
    /\ Populated
    /\ Len(ArcLabelled(layers.rows)) = 2
    /\ ArcLabelled(layers.rows)[1].arc # ArcLabelled(layers.rows)[2].arc

\* C3: a populated layer-stack view has the "Composed" row (key "composed", empty
\* arc label) at index 0 and nowhere else.
C3_ComposedFirst ==
    Populated =>
        /\ layers.rows # <<>>
        /\ layers.rows[1].key = composed_key
        /\ layers.rows[1].arc = ""
        /\ layers.rows[1].layer = <<"Composed">>
        /\ \A i \in DOMAIN layers.rows : i > 1 => layers.rows[i].key # composed_key

C3_Witness == Populated /\ Len(layers.rows) = 3 /\ layers.rows[1].key = composed_key

\* C4: the rows the view holds for P are those a fresh run of the attributor gives
\* on the unchanged stage, and no row of an earlier population is left.
C4_Idempotent ==
    Populated =>
        /\ SubSeq(layers.rows, 2, Len(layers.rows)) = attribute(layers.prim)
        /\ \A i \in DOMAIN layers.rows :
              \/ layers.rows[i].key = composed_key
              \/ \E j \in DOMAIN GetPrimStack(layers.prim) :
                    layers.rows[i].key = LayerRowKey(GetPrimStack(layers.prim)[j])

\* The view was populated for the pseudo-root and then again for /A.
C4_Witness ==
    /\ layers.prim = UsdPrim(PathA)
    /\ tree.cursor_node = TreeNode(PathA)
    /\ tabs.prim = UsdPrim(PseudoRoot)
    /\ \A i \in DOMAIN queue : queue[i].type # "StageTree.NodeHighlighted"
    /\ Len(layers.rows) = 3

\* C5: for a prim with an empty prim stack the view holds the "Composed" row only,
\* and no exception is raised.
C5_EmptyPrimStack ==
    (Populated /\ GetPrimStack(layers.prim) = <<>>) =>
        /\ Len(layers.rows) = 1
        /\ layers.rows[1].key = composed_key
        /\ ~crashed

\* /A has an empty prim stack and is shown after the pseudo-root was.
C5_Witness ==
    /\ layers.prim = UsdPrim(PathA)
    /\ GetPrimStack(layers.prim) = <<>>
    /\ GetCompositionArcs(layers.prim) # <<>>
    /\ tabs.prim = UsdPrim(PseudoRoot)

(***************************************************************************)
(* Properties of the selection cascade (checked under Spec).               *)
(***************************************************************************)
\* Every message has been handled.
Quiescent == queue = <<>> /\ ~crashed

\* The object the highlighted row of the layer-stack view stands for.
HighlightedLayerObject ==
    IF layers.cursor = 0 THEN tree.prim
    ELSE SdfPrimSpec(GetPrimStack(layers.prim)[layers.cursor].layer,
                     GetPrimStack(layers.prim)[layers.cursor].path)

C7_LayerRowBindsPropertyList ==
    (queue = <<>> /\ Populated /\ Truthy(tree.prim) /\ tabs.active = "Properties") =>
        props.data_object = HighlightedLayerObject

\* C8: handling the highlight of the property row named n sets the display state
\* to PropertyValue(prim.GetProperty(n)) when PrimDataTabs holds a composed prim,
\* and to PropertySpecValue(spec.GetPropertyAtPath("." + n)) when it holds a prim
\* spec; the property metadata view is given the same object.
C8_PropertyHighlightResolves ==
    [][(_property_highlighted /\ Truthy(tabs.prim)) =>
          LET n == Head(queue).row_key
              composed == GetProperty(tabs.prim, n)
              property_spec == GetPropertyAtPath(tabs.prim, <<".", n>>)
          IN  /\ tabs.prim.t = "Usd.Prim" =>
                    /\ values'.state = PropertyValueDisplayState(composed)
                    /\ prop_meta'.data_object = composed
              /\ tabs.prim.t = "Sdf.PrimSpec" =>
                    /\ values'.state = PropertySpecValueDisplayState(property_spec)
                    /\ prop_meta'.data_object = property_spec]_vars

\* A property spec of a prim spec was resolved and is shown.
C8_Witness ==
    /\ tabs.prim.t = "Sdf.PrimSpec"
    /\ values.state.kind = "PropertySpecValueDisplayState"
    /\ values.state.prop_spec.t = "Sdf.RelationshipSpec"
    /\ prop_meta.data_object = values.state.prop_spec
    /\ props.cursor > 0

\* C9: handling the highlight of a row the prim metadata view holds sets the
\* display state to MetadatumValue of the value stored in that row; the values
\* table then has the one column "Value" and one row with that value, and the
\* state is not frame-dependent.
C9_MetadatumShown ==
    [][(_prim_metadatum_highlighted /\ HasRow(prim_meta, Head(queue).row_key)) =>
          \E i \in DOMAIN prim_meta.rows :
             /\ prim_meta.rows[i].key = Head(queue).row_key
             /\ values'.state = MetadatumValueDisplayState(prim_meta.rows[i].value)
             /\ values'.columns = <<"Value">>
             /\ values'.rows = <<<<prim_meta.rows[i].value>>>>
             /\ ~frame_dependent(values'.state)]_vars

\* The second metadata row of /A is shown.
C9_Witness ==
    /\ Quiescent
    /\ tabs.active = "Metadata"
    /\ prim_meta.data_object = UsdPrim(PathA)
    /\ prim_meta.cursor = 1
    /\ values.state = MetadatumValueDisplayState(prim_meta.rows[2].value)
    /\ values.rows = <<<<prim_meta.rows[2].value>>>>

(***************************************************************************)
(* Properties of the timeline (checked under SpecFrames).                  *)
(***************************************************************************)
\* C10 as stated: once a frame change has been delivered, whenever every message
\* is handled the values table's frame is the slider's frame, and a frame-dependent
\* state is rendered at that frame.
C10_FrameFollowsTimeline ==
    (Quiescent /\ timeline.current_frame # 0) =>
        /\ values.frame = timeline.value
        /\ frame_dependent(values.state) =>
              /\ values.columns = apply(values.state, enter(values)).columns
              /\ values.rows = apply(values.state,
                                     enter([values EXCEPT !.frame = timeline.value])).rows

(***************************************************************************)
(* Properties of the display states (checked under SpecDisplay and Spec).  *)
(***************************************************************************)
\* A step of the timeline: the slider moves, or one of the two frame handlers runs.
FrameStep ==
    \/ \E value \in timeline.min..timeline.max : MoveSlider(value)
    \/ Timeline_frame_changed
    \/ _frame_changed

\* C11: while the display state is PropertySpecValue, MetadatumValue or NoValue, no
\* step of the timeline changes the columns or the rows of the values table, and
\* PropertyValue is the only state that is frame-dependent.
C11_FrameLeavesTable ==
    [][/\ frame_dependent(values.state) <=> values.state.kind = "PropertyValueDisplayState"
       /\ (FrameStep /\ values.state.kind # "PropertyValueDisplayState") =>
             /\ values'.columns = values.columns
             /\ values'.rows = values.rows
             /\ values'.state = values.state]_vars

\* The frame handler has set frame 2 while the time samples of a spec are shown.
C11_Witness ==
    /\ Quiescent
    /\ values.state.kind = "PropertySpecValueDisplayState"
    /\ values.frame = 2
    /\ timeline.current_frame = 2
    /\ Len(values.rows) = 2

\* The handler of a property-row highlight finds no prim, or no property of the
\* highlighted name on the object PrimDataTabs holds.
PropertyResolutionFails ==
    /\ _property_highlighted
    /\ \/ ~Truthy(tabs.prim)
       \/ ~Truthy(resolve_property(tabs.prim, Head(queue).row_key))

\* The handler of a metadata-row highlight finds no row of the highlighted key.
MetadatumResolutionFails ==
    /\ _prim_metadatum_highlighted
    /\ ~HasRow(prim_meta, Head(queue).row_key)

\* C12 as stated: when the resolution in a selection handler fails, the display
\* state becomes NoValue and no exception is raised.
C12_FailedResolutionGivesNoValue ==
    [][(PropertyResolutionFails \/ MetadatumResolutionFails) =>
          /\ values'.state = NoValueDisplayState
          /\ ~crashed']_vars

\* C13 as stated: a highlight of a layer-stack row whose key does not split into
\* exactly a layer and a path, or whose layer is not found, is handled without an
\* exception: the update is skipped.
C13_MalformedKeyRecovered ==
    [][(/\ _layer_highlighted
        /\ Head(queue).row_key # composed_key
        /\ \/ Len(split(Head(queue).row_key, "|")) # 2
           \/ ~(split(Head(queue).row_key, "|")[1] \in Layers)) =>
          /\ ~crashed'
          /\ UNCHANGED <<tabs, props, prim_meta, values>>]_vars

\* The values table without any column or row.
Blank(table) == [table EXCEPT !.rows = <<>>, !.columns = <<>>]

\* C14: the columns and rows of the values table are exactly those the current
\* state emits on an empty table; nothing of an earlier state is left.
C14_OnlyCurrentState ==
    /\ values.columns = apply(values.state, Blank(values)).columns
    /\ values.rows = apply(values.state, Blank(values)).rows

\* A metadatum is shown after the indexed rows of a property were.
C14_Witness ==
    /\ Quiescent
    /\ values.state.kind = "MetadatumValueDisplayState"
    /\ values.columns = <<"Value">>
    /\ Len(values.rows) = 1
    /\ props.data_object = UsdPrim(PathA)
    /\ prop_meta.data_object = UsdAttribute(PathA, "pts")

\* The shapes a rendered values table has: the placeholder column, one "Value"
\* column with one row, or "Index" and "Value" columns with numbered rows.
PlaceholderShape(table) == table.columns = <<"No Value">> /\ table.rows = <<>>
SingleValueShape(table) == table.columns = <<"Value">> /\ Len(table.rows) = 1
IndexedShape(table) ==
    /\ table.columns = <<"Index", "Value">>
    /\ \A i \in DOMAIN table.rows :
          Len(table.rows[i]) = 2 /\ table.rows[i][1] = Scalar(i - 1)

\* C15 as stated: the values table is always in one of the rendered shapes; a
\* table without columns is never reached.
C15_FullyRendered ==
    /\ values.columns # <<>>
    /\ \/ PlaceholderShape(values)
       \/ SingleValueShape(values)
       \/ IndexedShape(values)

\* A value that is neither None nor an empty sequence.
HasValue(value) == value.k # "none" /\ ~(value.k = "array" /\ value.v = <<>>)

\* The rows (i, v_i) of a sequence of values.
IndexedRows(items) == [i \in DOMAIN items |-> <<Scalar(i - 1), items[i]>>]

\* C16 as stated: a PropertyValue state over an attribute that has a value at the
\* table's frame shows the rows (i, v_i) under Index/Value when the attribute's
\* type is an array type, and one row with the value under the one column "Value"
\* when it is a scalar, whatever the value.
C16_AttributeRendering ==
    (/\ values.state.kind = "PropertyValueDisplayState"
     /\ values.state.usd_property.t = "Usd.Attribute"
     /\ HasValue(Get(values.state.usd_property, values.frame))) =>
        LET value == Get(values.state.usd_property, values.frame)
        IN  IF TypeIsArray(values.state.usd_property)
            THEN /\ values.columns = <<"Index", "Value">>
                 /\ values.rows = IndexedRows(value.v)
            ELSE /\ values.columns = <<"Value">>
                 /\ values.rows = <<<<value>>>>

\* C17: a relationship, or a relationship spec, with n > 0 targets is shown as the
\* n rows (i, target_i) under Index/Value, for n = 1 too.
C17_RelationshipIndexed ==
    /\ (/\ values.state.kind = "PropertyValueDisplayState"
        /\ values.state.usd_property.t = "Usd.Relationship"
        /\ GetTargets(values.state.usd_property).v # <<>>) =>
           /\ values.columns = <<"Index", "Value">>
           /\ values.rows = IndexedRows(GetTargets(values.state.usd_property).v)
    /\ (/\ values.state.kind = "PropertySpecValueDisplayState"
        /\ values.state.prop_spec.t = "Sdf.RelationshipSpec"
        /\ PropertySpecData(values.state.prop_spec.layer, values.state.prop_spec.path,
                            values.state.prop_spec.name).targets # <<>>) =>
           /\ values.columns = <<"Index", "Value">>
           /\ values.rows = IndexedRows(PropertySpecData(values.state.prop_spec.layer,
                                values.state.prop_spec.path,
                                values.state.prop_spec.name).targets)

\* The one target of the relationship spec /A.rel of the root layer is shown as
\* row 0, after the two targets of the composed relationship were shown.
C17_Witness ==
    /\ values.state = PropertySpecValueDisplayState(SdfRelationshipSpec(RootLayer, PathA, "rel"))
    /\ values.columns = <<"Index", "Value">>
    /\ values.rows = <<<<Scalar(0), Token(PathB)>>>>
    /\ GetTargets(UsdRelationship(PathA, "rel")).v = <<Token(PathM), Token(PathB)>>

\* The value a property state reads from the property it holds: the attribute's
\* value at the frame, the relationship's targets, all time-sample values of an
\* attribute spec or else its default, the explicit targets of a relationship spec.
ValueRead(usd_property, frame) ==
    CASE usd_property.t = "Usd.Attribute" -> Get(usd_property, frame)
      [] usd_property.t = "Usd.Relationship" -> GetTargets(usd_property)
      [] usd_property.t = "Sdf.AttributeSpec" ->
            LET d == PropertySpecData(usd_property.layer, usd_property.path,
                                      usd_property.name)
            IN  IF d.samples # <<>>
                THEN Array([i \in DOMAIN d.samples |-> d.samples[i][2]])
                ELSE d.default
      [] usd_property.t = "Sdf.RelationshipSpec" ->
            Array(PropertySpecData(usd_property.layer, usd_property.path,
                                   usd_property.name).targets)
      [] OTHER -> NoVal

\* The handler of a property-row highlight resolves a property whose value is none
\* or empty.
EmptyValueSelected ==
    /\ _property_highlighted
    /\ Truthy(tabs.prim)
    /\ Truthy(resolve_property(tabs.prim, Head(queue).row_key))
    /\ ~HasValue(ValueRead(resolve_property(tabs.prim, Head(queue).row_key), values.frame))

\* The property held by the display state, when it is one of the property states.
ShownProperty ==
    CASE values.state.kind = "PropertyValueDisplayState" -> values.state.usd_property
      [] values.state.kind = "PropertySpecValueDisplayState" -> values.state.prop_spec
      [] OTHER -> None

C19_AttributeSpecRendering ==
    (/\ values.state.kind = "PropertySpecValueDisplayState"
     /\ values.state.prop_spec.t = "Sdf.AttributeSpec") =>
        LET d == PropertySpecData(values.state.prop_spec.layer,
                                  values.state.prop_spec.path,
                                  values.state.prop_spec.name)
        IN  IF d.samples # <<>>
            THEN /\ values.columns = <<"Index", "Value">>
                 /\ values.rows =
                        IndexedRows([i \in DOMAIN d.samples |-> d.samples[i][2]])
            ELSE HasValue(d.default) =>
                    IF d.is_array
                    THEN /\ values.columns = <<"Index", "Value">>
                         /\ values.rows = IndexedRows(d.default.v)
                    ELSE /\ values.columns = <<"Value">>
                         /\ values.rows = <<<<d.default>>>>

\* The "Composed" row is highlighted again while the Properties pane shows the
\* value of a property spec of the prim under the tree cursor.
ComposedReselected ==
    /\ _layer_highlighted
    /\ Head(queue).row_key = composed_key
    /\ tabs.active = "Properties"
    /\ tabs.prim.t = "Sdf.PrimSpec"
    /\ tree.cursor_node # NoNode
    /\ tree.cursor_node.data = tabs.prim.path
    /\ values.state.kind = "PropertySpecValueDisplayState"
    /\ Truthy(values.state.prop_spec)
    /\ values.state.prop_spec.path = tabs.prim.path

\* C20 as stated: once a layer-stack row other than "Composed" has been selected
\* for a prim, every property chosen gives a PropertySpecValue state; and when
\* "Composed" is selected again, the property highlight that follows is for the
\* name that was displayed, so that the display reverts to the PropertyValue
\* state of the same attribute.
C20_ComposedRevertsToSameName ==
    [][/\ (_property_highlighted /\ tabs.prim.t = "Sdf.PrimSpec") =>
             values'.state.kind = "PropertySpecValueDisplayState"
       /\ ComposedReselected =>
             /\ queue' # <<>>
             /\ queue'[Len(queue')].type = "PrimPropertiesTable.RowHighlighted"
             /\ property_state(tabs'.prim,
                               resolve_property(tabs'.prim, queue'[Len(queue')].row_key))
                    = PropertyValueDisplayState(
                          GetProperty(tabs'.prim, values.state.prop_spec.name))]_vars

(***************************************************************************)
(* Properties of the metadata enumeration and of the handlers' atomicity.  *)
(***************************************************************************)
\* The (key, value) pairs a metadata table shows, in row order.
ShownPairs(table) == [i \in DOMAIN table.rows |-> <<table.rows[i].key, table.rows[i].value>>]

\* The pairs C21 expects for an object: general metadata, asset info, custom data
\* of a composed object; info keys, then asset info and custom data of a prim spec
\* or a property spec.
ExpectedPairs(obj) ==
    IF IsUsdObject(obj)
    THEN GetAllMetadata(obj) \o GetAssetInfo(obj) \o GetCustomData(obj)
    ELSE IF obj.t \in {"Sdf.PrimSpec", "Sdf.AttributeSpec", "Sdf.RelationshipSpec"}
    THEN ListInfo(obj) \o assetInfo(obj) \o customData(obj)
    ELSE ListInfo(obj)

\* C21: a metadata table that holds an object shows that object's pairs in source
\* order: general metadata, then asset info, then custom data for a composed
\* object; one pair per info key, then asset info and custom data for a prim spec
\* or property spec.
C21_MetadataInSourceOrder ==
    /\ Truthy(prim_meta.data_object) =>
           ShownPairs(prim_meta) = ExpectedPairs(prim_meta.data_object)
    /\ Truthy(prop_meta.data_object) =>
           ShownPairs(prop_meta) = ExpectedPairs(prop_meta.data_object)

\* The prim metadata table shows the six pairs of the composed prim /B, the
\* asset info before the custom data.
C21_Witness ==
    /\ Quiescent
    /\ prim_meta.data_object = UsdPrim(PathB)
    /\ Len(prim_meta.rows) = 6
    /\ prim_meta.rows[4].key = "name"
    /\ prim_meta.rows[6].key = "note"

Emitted(records, i) == Cardinality({k \in 1..(i - 1) : records[k].arc # "Sublayer"})

\* The layers of the prim-stack entries from the i-th onward.
RemainingLayers(prim_stack, i) == {prim_stack[k].layer : k \in i..Len(prim_stack)}

\* C23: with j the number of arc labels emitted before the record of
\* prim_stack[i], that record carries the name of arcs[j] exactly when j is within
\* the arc list and arcs[j] targets the layer of prim_stack[i]; otherwise it is
\* labelled "Sublayer" (and j stays).  Arcs are therefore used in order, none
\* skipped, none twice.
C23_TwoPointerStep ==
    Populated =>
        LET records == NonComposed(layers.rows)
            prim_stack == GetPrimStack(layers.prim)
            arcs == GetCompositionArcs(layers.prim)
        IN  /\ Len(records) = Len(prim_stack)
            /\ \A i \in DOMAIN records :
                  LET j == Emitted(records, i)
                  IN  IF j < Len(arcs) /\ arcs[j + 1].target = prim_stack[i].layer
                      THEN records[i].arc = arcs[j + 1].name
                      ELSE records[i].arc = "Sublayer"

\* The first spec is not the target of the first arc and the second one is: the
\* first record is a sublayer and the second takes the first arc.
C23_Witness ==
    /\ Populated
    /\ Len(GetCompositionArcs(layers.prim)) = 2
    /\ Len(NonComposed(layers.rows)) = 2
    /\ NonComposed(layers.rows)[1].arc = "Sublayer"
    /\ NonComposed(layers.rows)[2].arc = GetCompositionArcs(layers.prim)[1].name

\* C24: when the pending arc targets a layer that is not among the remaining
\* entries of the prim stack, every record from there on is labelled "Sublayer",
\* also a record whose layer a later arc targets, and nothing is raised.
C24_OutOfSyncArcs ==
    Populated =>
        LET records == NonComposed(layers.rows)
            prim_stack == GetPrimStack(layers.prim)
            arcs == GetCompositionArcs(layers.prim)
        IN  /\ ~crashed
            /\ \A i \in DOMAIN records :
                  LET j == Emitted(records, i)
                  IN  (/\ j < Len(arcs)
                       /\ arcs[j + 1].target \notin RemainingLayers(prim_stack, i)) =>
                          \A k \in i..Len(records) : records[k].arc = "Sublayer"

\* The first arc targets a layer outside the prim stack and the second arc targets
\* the layer of the second spec, whose record is a sublayer all the same.
C24_Witness ==
    /\ Populated
    /\ Len(GetPrimStack(layers.prim)) = 2
    /\ Len(GetCompositionArcs(layers.prim)) = 2
    /\ GetCompositionArcs(layers.prim)[1].target
          \notin RemainingLayers(GetPrimStack(layers.prim), 1)
    /\ GetCompositionArcs(layers.prim)[2].target = GetPrimStack(layers.prim)[2].layer
    /\ Len(NonComposed(layers.rows)) = 2
    /\ \A k \in 1..2 : NonComposed(layers.rows)[k].arc = "Sublayer"

\* C25: when the target layers of the arcs are a subsequence of the layers of the
\* prim stack, every arc labels exactly one record: the records not labelled
\* "Sublayer" are as many as the arcs, and the k-th of them carries the name and
\* the target layer of arcs[k].
C25_CoOrderedComplete ==
    Populated =>
        LET prim_stack == GetPrimStack(layers.prim)
            arcs == GetCompositionArcs(layers.prim)
            labelled == ArcLabelled(layers.rows)
        IN  IsSubsequence([k \in DOMAIN arcs |-> arcs[k].target],
                          [i \in DOMAIN prim_stack |-> prim_stack[i].layer]) =>
                /\ Len(labelled) = Len(arcs)
                /\ \A k \in DOMAIN arcs :
                      /\ labelled[k].arc = arcs[k].name
                      /\ labelled[k].layer = arcs[k].target

\* Two different arcs label the two records of a prim stack of two layers.
C25_Witness ==
    /\ Populated
    /\ Len(GetCompositionArcs(layers.prim)) = 2
    /\ GetCompositionArcs(layers.prim)[1] # GetCompositionArcs(layers.prim)[2]
    /\ Len(GetPrimStack(layers.prim)) = 2
    /\ Len(ArcLabelled(layers.rows)) = 2
    /\ ArcLabelled(layers.rows)[2].layer = GetCompositionArcs(layers.prim)[2].target

(***************************************************************************)
(* Properties of the row keys, of the bound objects and of the timeline.   *)
(***************************************************************************)
\* C26 as stated: the key of every record of the layer-stack view is unique among
\* the rows, differs from "composed", and splits on "|" into exactly the layer
\* identifier and the spec path of the prim-stack entry the record was built
\* from, so that the row resolves to that entry's prim spec.
C26_RowKeyRoundTrip ==
    Populated =>
        LET records == NonComposed(layers.rows)
            prim_stack == GetPrimStack(layers.prim)
        IN  /\ Len(records) = Len(prim_stack)
            /\ \A i \in DOMAIN records :
                  /\ records[i].key # composed_key
                  /\ \A k \in DOMAIN records : k # i => records[k].key # records[i].key
                  /\ split(records[i].key, "|") = <<prim_stack[i].layer, prim_stack[i].path>>
                  /\ Resolvable(records[i].key)
                  /\ resolve_prim_spec(records[i].key)
                        = SdfPrimSpec(prim_stack[i].layer, prim_stack[i].path)

\* C27 as stated: once every pending event is handled, a PropertyValue state holds
\* a property of the composed prim bound to the property list, a PropertySpecValue
\* state holds a property spec of the prim spec bound to it, and when the bound
\* object has no properties no property state is left on display.
C27_NoStaleDisplay ==
    Quiescent =>
        /\ values.state.kind = "PropertyValueDisplayState" =>
              /\ props.data_object.t = "Usd.Prim"
              /\ Truthy(values.state.usd_property)
              /\ values.state.usd_property.path = props.data_object.path
              /\ props.rows # <<>>
        /\ values.state.kind = "PropertySpecValueDisplayState" =>
              /\ props.data_object.t = "Sdf.PrimSpec"
              /\ Truthy(values.state.prop_spec)
              /\ values.state.prop_spec.layer = props.data_object.layer
              /\ values.state.prop_spec.path = props.data_object.path
              /\ props.rows # <<>>

\* The rows a prim-data table shows for an object; none for a missing object.
HolderRows(obj, rows_of(_)) == IF Truthy(obj) THEN rows_of(obj) ELSE <<>>

\* C28 as stated: once the prim assignments and tab activations are handled, the
\* table of the active tab holds PrimDataTabs.prim as its data object and shows
\* the rows of that object, also when the prim is missing.
C28_VisibleHolderShowsPrim ==
    Quiescent =>
        IF tabs.active = "Properties"
        THEN /\ props.data_object = tabs.prim
             /\ props.rows = HolderRows(tabs.prim, property_rows)
        ELSE /\ prim_meta.data_object = tabs.prim
             /\ prim_meta.rows = HolderRows(tabs.prim, metadata_rows)

\* C29 as stated: the slider's initial min and max are the start and the end time
\* code of the stage, for every stage, a time code of 0 included (checked where
\* no frame input is edited, so that the range is the one compose gave).
C29_SliderRangeFromStage ==
    /\ timeline.min = stage.start
    /\ timeline.max = stage.end

\* The slider's range is not empty and holds the slider's value.
RangeHoldsValue(slider) ==
    /\ slider.min < slider.max
    /\ slider.min <= slider.value
    /\ slider.value <= slider.max

\* The frame-input handler takes a text that is not a non-negative integer, a
\* start frame not below the slider's max, or an end frame not above its min.
FrameInputRejected ==
    \/ /\ _start_frame_changed
       /\ ~isdigit(Head(queue).value) \/ int(Head(queue).value) >= timeline.max
    \/ /\ _end_frame_changed
       /\ ~isdigit(Head(queue).value) \/ int(Head(queue).value) <= timeline.min

\* C30: from a slider with min < max and min <= value <= max, every step of the
\* timeline leaves min < max and min <= value <= max, and a frame input that is
\* rejected leaves min, max and value as they were.
C30_TimelineRange ==
    [][RangeHoldsValue(timeline) =>
          /\ RangeHoldsValue(timeline')
          /\ FrameInputRejected =>
                /\ timeline'.min = timeline.min
                /\ timeline'.max = timeline.max
                /\ timeline'.value = timeline.value]_vars

\* Both inputs were accepted: the range 1..2 the stage gave has become 0..1.
C30_Witness ==
    /\ Quiescent
    /\ stage.start = 1 /\ stage.end = 2
    /\ timeline.min = 0
    /\ timeline.max = 1
    /\ timeline.value = 1

\* The keys of a sequence of (key, value) pairs are pairwise distinct.
DistinctKeys(pairs) == \A i, j \in DOMAIN pairs : i # j => pairs[i][1] # pairs[j][1]

\* C31 as stated: the keys enumerated for the object a metadata table holds
\* (general metadata, asset info, custom data concatenated) are pairwise
\* distinct, the table has one row per enumerated pair, no two rows share a key,
\* and populating it raises nothing.
C31_MetadataKeysDistinct ==
    /\ Truthy(prim_meta.data_object) =>
          /\ DistinctKeys(ExpectedPairs(prim_meta.data_object))
          /\ Len(prim_meta.rows) = Len(ExpectedPairs(prim_meta.data_object))
          /\ DistinctKeys(ShownPairs(prim_meta))
    /\ Truthy(prop_meta.data_object) =>
          /\ DistinctKeys(ExpectedPairs(prop_meta.data_object))
          /\ Len(prop_meta.rows) = Len(ExpectedPairs(prop_meta.data_object))
          /\ DistinctKeys(ShownPairs(prop_meta))
    /\ ~crashed

====
